---- MODULE Spec2Model ----
(***************************************************************************)
(* Model of hospital_system: the registration scheduler of                *)
(* HospitalService (services.py), the queries of RegistrationRepository   *)
(* (repositories.py) and the transactional scope of db.py, on the SQLite  *)
(* engine that db.py creates.                                             *)
(*                                                                        *)
(* Timestamps are integers counting ticks of 1/TicksPerSecond second      *)
(* since midnight of the first modelled day.                              *)
(***************************************************************************)
EXTENDS Integers, FiniteSets, Sequences, TLC

(***************************************************************************)
(* Bounds of the exploration.                                              *)
(***************************************************************************)
\* Largest registration id the exploration inserts.
MaxId == 2

(***************************************************************************)
(* Time.                                                                   *)
(***************************************************************************)
\* Resolution of the modelled datetime values (sub-second precision).
TicksPerSecond == 1000

\* datetime.timedelta(minutes=m, seconds=s)
timedelta(m, s) == (m * 60 + s) * TicksPerSecond

\* strftime("%Y-%m-%d %H:%M", t): the timestamp truncated to its minute.
strftime_minute(t) == t \div (60 * TicksPerSecond)

\* 10:00:00 on the first day, the reference visit time of the exploration.
T0 == timedelta(600, 0)

\* Visit times a request may name: the reference time, and times 14:58,
\* 14:59.5 and 15:00 after it.
VisitTimes ==
    { T0, T0 + timedelta(14, 58), T0 + timedelta(14, 59) + (TicksPerSecond \div 2),
      T0 + timedelta(15, 0) }

\* Readings of datetime.now(): one before every visit time, one just after T0.
ClockValues == { T0 - timedelta(1, 0), T0 + timedelta(0, 1) }

(***************************************************************************)
(* Entities (models.py).  Departments, doctors and patients are created    *)
(* by simple factory operations and never deleted; the exploration starts  *)
(* from a store that holds two of each.                                    *)
(***************************************************************************)
DepartmentIds == {1, 2}
DoctorIds == {1, 2}
PatientIds == {1, 2}

\* An id that refers to no stored row of any table.
MissingId == 9

\* Doctor.department_id of each stored doctor.
DoctorDepartment == [d \in DoctorIds |-> d]

\* The status strings of the domain.  Cancelled stands for the literal
\* cancellation marker compared against in the conflict queries.
Scheduled == "scheduled"
Completed == "completed"
Cancelled == "cancelled"

\* Values of the status argument of create_registration.
StatusArgs == {Scheduled, Cancelled}

\* Requests naming stored entities and the doctor's own department.
ValidIdArgs == { <<p, d, DoctorDepartment[d]>> : p \in PatientIds, d \in DoctorIds }

\* Requests naming any mix of stored and missing entities.
AnyIdArgs ==
    (PatientIds \cup {MissingId}) \X (DoctorIds \cup {MissingId})
        \X (DepartmentIds \cup {MissingId})

VARIABLES
    registrations,  \* the committed rows of the registrations table
    now,            \* the reading of datetime.now()
    last,           \* the last service call of the sequential client and its outcome
    sess,           \* per concurrent session: position, request, flushed rows, outcome
    writer          \* the session holding SQLite's write lock, or 0

vars == <<registrations, now, last, sess, writer>>

(***************************************************************************)
(* Queries of the scheduler and of RegistrationRepository, over the rows   *)
(* `view` that the querying session can see.                               *)
(***************************************************************************)
\* conflict_stmt without its status condition: cancelled rows match too.
DoctorWindowRows_AnyStatus(view, doctor_id, visit_time) ==
    { r \in view :
        /\ r.doctor_id = doctor_id
        /\ r.visit_time >= visit_time - timedelta(14, 59)
        /\ r.visit_time <= visit_time + timedelta(14, 59) }

\* The rows matched by conflict_stmt.
DoctorWindowRows(view, doctor_id, visit_time) ==
    { r \in view :
        /\ r.doctor_id = doctor_id
        /\ r.status # Cancelled
        /\ r.visit_time >= visit_time - timedelta(14, 59)
        /\ r.visit_time <= visit_time + timedelta(14, 59) }

\* patient_conflict_stmt with strict comparisons: the window's end points
\* are left out.
PatientWindowRows_StrictBounds(view, patient_id, visit_time) ==
    { r \in view :
        /\ r.patient_id = patient_id
        /\ r.status # Cancelled
        /\ r.visit_time > visit_time - timedelta(14, 59)
        /\ r.visit_time < visit_time + timedelta(14, 59) }

\* The rows matched by patient_conflict_stmt.
PatientWindowRows(view, patient_id, visit_time) ==
    { r \in view :
        /\ r.patient_id = patient_id
        /\ r.status # Cancelled
        /\ r.visit_time >= visit_time - timedelta(14, 59)
        /\ r.visit_time <= visit_time + timedelta(14, 59) }

\* Result.scalar_one_or_none(): no row, the one row, or MultipleResultsFound.
scalar_one_or_none(rows) ==
    IF rows = {} THEN "none"
    ELSE IF Cardinality(rows) = 1 THEN "one"
    ELSE "MultipleResultsFound"

exists_conflict(view, doctor_id, visit_time) ==
    \E r \in view :
        /\ r.doctor_id = doctor_id
        /\ strftime_minute(r.visit_time) = strftime_minute(visit_time)
        /\ r.status # Cancelled

exists_patient_conflict(view, patient_id, visit_time) ==
    \E r \in view :
        /\ r.patient_id = patient_id
        /\ strftime_minute(r.visit_time) = strftime_minute(visit_time)
        /\ r.status # Cancelled

\* func.date(t): the calendar day of a timestamp.
date(t) == t \div timedelta(1440, 0)

\* The value of an id or date filter that is not given (None).
NoFilter == -1

\* RegistrationRepository.list: the rows that pass every filter given.  A
\* status filter of None or of the empty string filters nothing.
list(view, department_id, visit_date, status) ==
    { r \in view :
        /\ department_id # NoFilter => r.department_id = department_id
        /\ visit_date # NoFilter => date(r.visit_time) = visit_date
        /\ status # "" => r.status = status }

\* The id SQLite gives an inserted row: one more than the largest rowid.
NextId(view) ==
    IF view = {} THEN 1
    ELSE (CHOOSE i \in {r.id : r \in view} : \A r \in view : r.id <= i) + 1

\* The row built by RegistrationRepository.create.
NewRegistration(view, patient_id, doctor_id, department_id, visit_time, status) ==
    [ id |-> NextId(view), patient_id |-> patient_id, doctor_id |-> doctor_id,
      department_id |-> department_id, visit_time |-> visit_time, status |-> status ]

\* The validations without the test of the visit time against the clock.
Validate_NoPastCheck(patient_id, doctor_id, department_id, visit_time, clock) ==
    IF patient_id \notin PatientIds THEN "ResourceNotFoundError"
    ELSE IF doctor_id \notin DoctorIds THEN "NoResultFound"
    ELSE IF department_id \notin DepartmentIds THEN "ResourceNotFoundError"
    ELSE IF DoctorDepartment[doctor_id] # department_id THEN "ValidationError"
    ELSE "ok"

\* The validations without the test of the doctor's department.
Validate_NoDepartmentCheck(patient_id, doctor_id, department_id, visit_time, clock) ==
    IF patient_id \notin PatientIds THEN "ResourceNotFoundError"
    ELSE IF doctor_id \notin DoctorIds THEN "NoResultFound"
    ELSE IF department_id \notin DepartmentIds THEN "ResourceNotFoundError"
    ELSE IF visit_time < clock THEN "ValidationError"
    ELSE "ok"

\* The outcome of the lookups and validations of create_registration, in
\* the order the code performs them; "ok" when all pass.
Validate(patient_id, doctor_id, department_id, visit_time, clock) ==
    IF patient_id \notin PatientIds THEN "ResourceNotFoundError"
    ELSE IF doctor_id \notin DoctorIds THEN "NoResultFound"
    ELSE IF department_id \notin DepartmentIds THEN "ResourceNotFoundError"
    ELSE IF DoctorDepartment[doctor_id] # department_id THEN "ValidationError"
    ELSE IF visit_time < clock THEN "ValidationError"
    ELSE "ok"

\* The outcome of the doctor window query.
DoctorWindowCheck(view, doctor_id, visit_time) ==
    LET found == scalar_one_or_none(DoctorWindowRows(view, doctor_id, visit_time))
    IN  IF found = "MultipleResultsFound" THEN "MultipleResultsFound"
        ELSE IF found = "one" THEN "DoctorBusyError"
        ELSE "ok"

\* The outcome of the patient window query.
PatientWindowCheck(view, patient_id, visit_time) ==
    LET found == scalar_one_or_none(PatientWindowRows(view, patient_id, visit_time))
    IN  IF found = "MultipleResultsFound" THEN "MultipleResultsFound"
        ELSE IF found = "one" THEN "PatientBusyError"
        ELSE "ok"

\* The exact-minute guards.
ExactDoctorCheck(view, doctor_id, visit_time) ==
    IF exists_conflict(view, doctor_id, visit_time) THEN "DoctorBusyError" ELSE "ok"

ExactPatientCheck(view, patient_id, visit_time) ==
    IF exists_patient_conflict(view, patient_id, visit_time) THEN "PatientBusyError" ELSE "ok"

\* The outcome of a whole create_registration call that runs alone on `view`.
CreateOutcome(view, patient_id, doctor_id, department_id, visit_time, clock) ==
    LET v  == Validate(patient_id, doctor_id, department_id, visit_time, clock)
        dw == DoctorWindowCheck(view, doctor_id, visit_time)
        pw == PatientWindowCheck(view, patient_id, visit_time)
        de == ExactDoctorCheck(view, doctor_id, visit_time)
        pe == ExactPatientCheck(view, patient_id, visit_time)
    IN  IF v # "ok" THEN v
        ELSE IF dw # "ok" THEN dw
        ELSE IF pw # "ok" THEN pw
        ELSE IF de # "ok" THEN de
        ELSE IF pe # "ok" THEN pe
        ELSE "ok"

(***************************************************************************)
(* The sequential client: one service call at a time, each in its own      *)
(* session_scope, so every successful call is committed when it returns.   *)
(***************************************************************************)
\* The record of a call: its arguments, the id of the registration it
\* returned or acted on (0 when none), and "ok" or the exception raised.
Call(op, patient_id, doctor_id, department_id, visit_time, id, result) ==
    [ op |-> op, patient_id |-> patient_id, doctor_id |-> doctor_id,
      department_id |-> department_id, visit_time |-> visit_time,
      id |-> id, result |-> result ]

NoCall == Call("none", 0, 0, 0, 0, 0, "")

Sessions == {1, 2}

Idle == [ pc |-> "idle", patient_id |-> 0, doctor_id |-> 0, department_id |-> 0,
          visit_time |-> 0, pending |-> {}, result |-> "" ]

Init ==
    /\ registrations = {}
    /\ now = T0 - timedelta(1, 0)
    /\ last = NoCall
    /\ sess = [s \in Sessions |-> Idle]
    /\ writer = 0

\* create_registration with the INSERT moved ahead of the lookups and
\* checks, in a session that commits whatever was flushed.
CreateRegistration_InsertsBeforeChecks(patient_id, doctor_id, department_id, visit_time, status) ==
    LET result == CreateOutcome(registrations, patient_id, doctor_id, department_id,
                                visit_time, now)
        row    == NewRegistration(registrations, patient_id, doctor_id, department_id,
                                  visit_time, status)
    IN  /\ row.id <= MaxId
        /\ registrations' = registrations \cup {row}
        /\ last' = Call("create", patient_id, doctor_id, department_id, visit_time,
                        IF result = "ok" THEN row.id ELSE 0, result)
        /\ UNCHANGED <<now, sess, writer>>

\* with session_scope() as session:
\*     HospitalService(session).create_registration(...)
CreateRegistration(patient_id, doctor_id, department_id, visit_time, status) ==
    LET result == CreateOutcome(registrations, patient_id, doctor_id, department_id,
                                visit_time, now)
        row    == NewRegistration(registrations, patient_id, doctor_id, department_id,
                                  visit_time, status)
    IN  /\ result = "ok" => row.id <= MaxId
        /\ registrations' = IF result = "ok" THEN registrations \cup {row}
                            ELSE registrations
        /\ last' = Call("create", patient_id, doctor_id, department_id, visit_time,
                        IF result = "ok" THEN row.id ELSE 0, result)
        /\ UNCHANGED <<now, sess, writer>>

\* complete_registration that reports success without writing the status.
CompleteRegistration_NoWrite(registration_id) ==
    LET found == { r \in registrations : r.id = registration_id }
    IN  /\ last' = Call("complete", 0, 0, 0, 0, registration_id,
                        IF found = {} THEN "ResourceNotFoundError" ELSE "ok")
        /\ UNCHANGED <<registrations, now, sess, writer>>

\* HospitalService.complete_registration
CompleteRegistration(registration_id) ==
    LET found == { r \in registrations : r.id = registration_id }
    IN  /\ registrations' =
              { IF r.id = registration_id THEN [r EXCEPT !.status = Completed] ELSE r :
                    r \in registrations }
        /\ last' = Call("complete", 0, 0, 0, 0, registration_id,
                        IF found = {} THEN "ResourceNotFoundError" ELSE "ok")
        /\ UNCHANGED <<now, sess, writer>>

\* delete_registration that takes a missing id for a row already deleted
\* and returns normally.
DeleteRegistration_SilentOnMissing(registration_id) ==
    LET found == { r \in registrations : r.id = registration_id }
    IN  /\ registrations' = registrations \ found
        /\ last' = Call("delete", 0, 0, 0, 0, registration_id, "ok")
        /\ UNCHANGED <<now, sess, writer>>

\* delete_registration that returns normally without the row being
\* removed from the committed table.
DeleteRegistration_KeepsRow(registration_id) ==
    LET found == { r \in registrations : r.id = registration_id }
    IN  /\ last' = Call("delete", 0, 0, 0, 0, registration_id,
                        IF found = {} THEN "ResourceNotFoundError" ELSE "ok")
        /\ UNCHANGED <<registrations, now, sess, writer>>

\* HospitalService.delete_registration
DeleteRegistration(registration_id) ==
    LET found == { r \in registrations : r.id = registration_id }
    IN  /\ registrations' = registrations \ found
        /\ last' = Call("delete", 0, 0, 0, 0, registration_id,
                        IF found = {} THEN "ResourceNotFoundError" ELSE "ok")
        /\ UNCHANGED <<now, sess, writer>>

\* Time passes between calls: datetime.now() reads a later value.
Tick ==
    /\ \E c \in ClockValues : c > now /\ now' = c
    /\ last' = Call("tick", 0, 0, 0, 0, 0, "")
    /\ UNCHANGED <<registrations, sess, writer>>

\* Calls on stored entities, over every visit time and status.
Next ==
    \/ \E a \in ValidIdArgs, t \in VisitTimes, s \in StatusArgs :
            CreateRegistration(a[1], a[2], a[3], t, s)
    \/ \E id \in 1..(MaxId + 1) : CompleteRegistration(id)
    \/ \E id \in 1..(MaxId + 1) : DeleteRegistration(id)
    \/ Tick

Spec == Init /\ [][Next]_vars

\* Calls on stored entities, at the reference time and at the last instant
\* of its window, 14:59 after it.
WindowNext ==
    \/ \E a \in ValidIdArgs, t \in {T0, T0 + timedelta(14, 59)}, s \in StatusArgs :
            CreateRegistration(a[1], a[2], a[3], t, s)
    \/ \E id \in 1..(MaxId + 1) : CompleteRegistration(id)
    \/ \E id \in 1..(MaxId + 1) : DeleteRegistration(id)
    \/ Tick

WindowSpec == Init /\ [][WindowNext]_vars

\* Calls that may name missing entities or another department, at the
\* reference time and 15 minutes after it.
ArgNext ==
    \/ \E a \in AnyIdArgs, t \in {T0, T0 + timedelta(15, 0)} :
            CreateRegistration(a[1], a[2], a[3], t, Scheduled)
    \/ \E id \in 1..(MaxId + 1) : CompleteRegistration(id)
    \/ \E id \in 1..(MaxId + 1) : DeleteRegistration(id)
    \/ Tick

ArgSpec == Init /\ [][ArgNext]_vars

(***************************************************************************)
(* Storage failures.  The flush or commit of a lifecycle operation raises  *)
(* an exception of the storage layer; the operation rolls back and either  *)
(* translates the exception or lets it through.                            *)
(***************************************************************************)
\* Exceptions SQLAlchemy raises for a failing statement or commit:
\* OperationalError (read-only database, locked database, full disk) and
\* its superclass DatabaseError (for one, a malformed database file).
StorageExceptions == {"OperationalError", "DatabaseError"}

\* What the except clauses of the lifecycle operations raise for a storage
\* exception: ValidationError for OperationalError, the exception itself
\* for any other.
Reraised(exception) ==
    IF exception = "OperationalError" THEN "ValidationError" ELSE exception

\* complete_registration whose flush or commit raises `exception`.
CompleteRegistrationStorageFails(registration_id, exception) ==
    /\ \E r \in registrations : r.id = registration_id
    /\ last' = Call("complete", 0, 0, 0, 0, registration_id, Reraised(exception))
    /\ UNCHANGED <<registrations, now, sess, writer>>

\* delete_registration whose commit raises `exception`.
DeleteRegistrationStorageFails(registration_id, exception) ==
    /\ \E r \in registrations : r.id = registration_id
    /\ last' = Call("delete", 0, 0, 0, 0, registration_id, Reraised(exception))
    /\ UNCHANGED <<registrations, now, sess, writer>>

\* Calls on stored entities at the reference time and 14:59 after it, over
\* a storage layer that may fail while a lifecycle operation persists.
StorageNext ==
    \/ \E a \in ValidIdArgs, t \in {T0, T0 + timedelta(14, 59)}, s \in StatusArgs :
            CreateRegistration(a[1], a[2], a[3], t, s)
    \/ \E id \in 1..(MaxId + 1) : CompleteRegistration(id)
    \/ \E id \in 1..(MaxId + 1) : DeleteRegistration(id)
    \/ \E id \in 1..(MaxId + 1), e \in StorageExceptions :
            CompleteRegistrationStorageFails(id, e)
    \/ \E id \in 1..(MaxId + 1), e \in StorageExceptions :
            DeleteRegistrationStorageFails(id, e)
    \/ Tick

StorageSpec == Init /\ [][StorageNext]_vars

(***************************************************************************)
(* Creation timestamps.  Registration.created_at defaults to               *)
(* datetime.utcnow(), evaluated when the row is inserted, while the        *)
(* validation of the visit time reads the local clock, datetime.now().     *)
(***************************************************************************)
\* Offsets of the local time zone from UTC: five hours behind, none, eight
\* hours ahead.
UtcOffsets == { 0 - timedelta(300, 0), 0, timedelta(480, 0) }

\* datetime.utcnow() when datetime.now() reads `clock` in a zone at `offset`.
utcnow(clock, offset) == clock - offset

\* A row together with its created_at column.
Stamped(row, created_at) ==
    [ id |-> row.id, patient_id |-> row.patient_id, doctor_id |-> row.doctor_id,
      department_id |-> row.department_id, visit_time |-> row.visit_time,
      status |-> row.status, created_at |-> created_at ]

\* create_registration on a host whose zone is at `offset` from UTC, with
\* the created_at default included in the inserted row.
CreateRegistrationStamped(patient_id, doctor_id, department_id, visit_time, status, offset) ==
    LET result == CreateOutcome(registrations, patient_id, doctor_id, department_id,
                                visit_time, now)
        row    == Stamped(NewRegistration(registrations, patient_id, doctor_id,
                                          department_id, visit_time, status),
                          utcnow(now, offset))
    IN  /\ result = "ok" => row.id <= MaxId
        /\ registrations' = IF result = "ok" THEN registrations \cup {row}
                            ELSE registrations
        /\ last' = Call("create", patient_id, doctor_id, department_id, visit_time,
                        IF result = "ok" THEN row.id ELSE 0, result)
        /\ UNCHANGED <<now, sess, writer>>

\* Calls on stored entities at the reference time and 15 minutes after it,
\* on hosts in each time zone.
ClockNext ==
    \/ \E a \in ValidIdArgs, t \in {T0, T0 + timedelta(15, 0)}, o \in UtcOffsets :
            CreateRegistrationStamped(a[1], a[2], a[3], t, Scheduled, o)
    \/ \E id \in 1..(MaxId + 1) : CompleteRegistration(id)
    \/ \E id \in 1..(MaxId + 1) : DeleteRegistration(id)
    \/ Tick

ClockSpec == Init /\ [][ClockNext]_vars

(***************************************************************************)
(* Listings.  get_registrations of the Streamlit page asks the service for *)
(* the filtered registrations and filters the answer once more in memory;  *)
(* its status filter knows a sentinel for registrations without a status.  *)
(***************************************************************************)
\* The status argument None and the sentinel for "no status".
NoStatus == "None"
Sentinel == "__NONE__"

\* str.strip() on the status strings of the exploration.
strip(status) == IF status = " " THEN "" ELSE status

\* normalized_status of get_registrations: None for an empty status.
normalized_status(status) ==
    IF strip(status) = "" THEN NoStatus ELSE strip(status)

\* HospitalService.list_registrations called with keyword filters; a
\* status of None reaches the repository as a filter that is not given.
list_registrations(view, department_id, visit_date, status) ==
    list(view, department_id, visit_date, IF status = NoStatus THEN "" ELSE status)

\* get_registrations: the service's answer, filtered again in memory.
get_registrations(view, department_id, visit_date, status) ==
    { reg \in list_registrations(view, department_id, visit_date, status) :
        /\ department_id # NoFilter => reg.department_id = department_id
        /\ visit_date # NoFilter => date(reg.visit_time) = visit_date
        /\ status # NoStatus =>
                /\ status = Sentinel => normalized_status(reg.status) = NoStatus
                /\ status # Sentinel => normalized_status(reg.status) = status }

\* Values of the status argument of create_registration in the listing
\* exploration: the default and the empty string.
ListStatusArgs == {Scheduled, ""}

\* Visit times of the listing exploration: the reference time and the
\* same time on the next day.
ListVisitTimes == {T0, T0 + timedelta(1440, 0)}

\* Calls on stored entities on two days, with and without a status.
ListNext ==
    \/ \E a \in ValidIdArgs, t \in ListVisitTimes, s \in ListStatusArgs :
            CreateRegistration(a[1], a[2], a[3], t, s)
    \/ \E id \in 1..(MaxId + 1) : CompleteRegistration(id)
    \/ \E id \in 1..(MaxId + 1) : DeleteRegistration(id)
    \/ Tick

ListSpec == Init /\ [][ListNext]_vars

(***************************************************************************)
(* Concurrent sessions.  Each session runs one create_registration inside  *)
(* its own session_scope, statement by statement.  The engine is SQLite:   *)
(* its dialect renders no FOR UPDATE, so the locking reads take no row     *)
(* lock; a SELECT sees the committed rows and the session's own flushed    *)
(* rows; the first INSERT of a transaction takes the database write lock,  *)
(* which is held until the transaction commits or rolls back.              *)
(***************************************************************************)
\* Visit times of the concurrent requests.
ConcVisitTimes == { T0, T0 + timedelta(14, 58) }

\* The rows session s reads: committed rows and its own flushed rows.
View(s) == registrations \cup sess[s].pending

\* An exception leaves session_scope: the session is closed, its flushed
\* rows are rolled back and its write lock is released.
Rollback(s, exception) ==
    /\ sess' = [sess EXCEPT ![s] = [@ EXCEPT !.pc = "failed", !.result = exception,
                                             !.pending = {}]]
    /\ writer' = IF writer = s THEN 0 ELSE writer
    /\ UNCHANGED <<registrations, now, last>>

\* The statement at position `pc` passed: the session moves on to `next`.
Proceed(s, next) ==
    /\ sess' = [sess EXCEPT ![s].pc = next]
    /\ UNCHANGED <<registrations, now, last, writer>>

\* Entity lookups, the two FOR UPDATE reads and the validations.
BeginCreate(s, patient_id, doctor_id, department_id, visit_time) ==
    /\ sess[s].pc = "idle"
    /\ LET v == Validate(patient_id, doctor_id, department_id, visit_time, now)
       IN  IF v = "ok"
           THEN /\ sess' = [sess EXCEPT ![s] =
                        [@ EXCEPT !.pc = "doctor_window", !.patient_id = patient_id,
                                  !.doctor_id = doctor_id,
                                  !.department_id = department_id,
                                  !.visit_time = visit_time]]
                /\ UNCHANGED <<registrations, now, last, writer>>
           ELSE Rollback(s, v)

\* conflict_stmt and its test.
DoctorWindowStep(s) ==
    /\ sess[s].pc = "doctor_window"
    /\ LET c == DoctorWindowCheck(View(s), sess[s].doctor_id, sess[s].visit_time)
       IN  IF c = "ok" THEN Proceed(s, "patient_window") ELSE Rollback(s, c)

\* patient_conflict_stmt and its test.
PatientWindowStep(s) ==
    /\ sess[s].pc = "patient_window"
    /\ LET c == PatientWindowCheck(View(s), sess[s].patient_id, sess[s].visit_time)
       IN  IF c = "ok" THEN Proceed(s, "exact_doctor") ELSE Rollback(s, c)

\* The exact-minute guard on the doctor.
ExactDoctorStep(s) ==
    /\ sess[s].pc = "exact_doctor"
    /\ LET c == ExactDoctorCheck(View(s), sess[s].doctor_id, sess[s].visit_time)
       IN  IF c = "ok" THEN Proceed(s, "exact_patient") ELSE Rollback(s, c)

\* The exact-minute guard on the patient.
ExactPatientStep(s) ==
    /\ sess[s].pc = "exact_patient"
    /\ LET c == ExactPatientCheck(View(s), sess[s].patient_id, sess[s].visit_time)
       IN  IF c = "ok" THEN Proceed(s, "insert") ELSE Rollback(s, c)

\* RegistrationRepository.create: add and flush.  The INSERT needs the
\* write lock, so it waits while another session holds it.
Insert(s) ==
    /\ sess[s].pc = "insert"
    /\ writer \in {0, s}
    /\ LET row == NewRegistration(View(s), sess[s].patient_id, sess[s].doctor_id,
                                  sess[s].department_id, sess[s].visit_time, Scheduled)
       IN  /\ row.id <= MaxId
           /\ sess' = [sess EXCEPT ![s] = [@ EXCEPT !.pc = "created",
                                                    !.pending = @ \cup {row}]]
    /\ writer' = s
    /\ UNCHANGED <<registrations, now, last>>

\* The wait for the write lock outlasts the busy timeout: the INSERT
\* raises OperationalError (database is locked).
InsertTimeout(s) ==
    /\ sess[s].pc = "insert"
    /\ writer \notin {0, s}
    /\ Rollback(s, "OperationalError")

\* A session_scope whose block never ends: the transaction stays open
\* after the INSERT.
Commit_LeavesTransactionOpen(s) ==
    /\ sess[s].pc = "created"
    /\ UNCHANGED vars

\* session_scope ends normally: session.commit().
Commit(s) ==
    /\ sess[s].pc = "created"
    /\ registrations' = registrations \cup sess[s].pending
    /\ sess' = [sess EXCEPT ![s] = [@ EXCEPT !.pc = "committed", !.result = "ok",
                                             !.pending = {}]]
    /\ writer' = IF writer = s THEN 0 ELSE writer
    /\ UNCHANGED <<now, last>>

ConcNext ==
    \E s \in Sessions :
        \/ \E a \in ValidIdArgs, t \in ConcVisitTimes : BeginCreate(s, a[1], a[2], a[3], t)
        \/ DoctorWindowStep(s)
        \/ PatientWindowStep(s)
        \/ ExactDoctorStep(s)
        \/ ExactPatientStep(s)
        \/ Insert(s)
        \/ InsertTimeout(s)
        \/ Commit(s)

ConcSpec == Init /\ [][ConcNext]_vars

\* The statements session s can run once its request has begun.
SessionStep(s) ==
    \/ DoctorWindowStep(s)
    \/ PatientWindowStep(s)
    \/ ExactDoctorStep(s)
    \/ ExactPatientStep(s)
    \/ Insert(s)
    \/ InsertTimeout(s)
    \/ Commit(s)

\* Every session that has begun a request keeps running: its thread is
\* scheduled, a statement that can run does run, and a wait for the write
\* lock ends with the lock or with the busy timeout.
ConcFairSpec ==
    Init /\ [][ConcNext]_vars /\ \A s \in Sessions : WF_vars(SessionStep(s))

(***************************************************************************)
(* One session_scope that holds several service calls, as in seed(): each  *)
(* create_registration flushes its row into the session's open             *)
(* transaction; complete_registration and delete_registration commit the   *)
(* session themselves, or roll it back when the storage layer fails.       *)
(***************************************************************************)
\* The session has nothing flushed and holds no lock.
Closed(s) == [sess EXCEPT ![s] = Idle]

\* create_registration inside the open session s.  An exception is left to
\* the caller; the session stays as it was.
ScopeCreate(s, patient_id, doctor_id, department_id, visit_time) ==
    LET result == CreateOutcome(View(s), patient_id, doctor_id, department_id,
                                visit_time, now)
        row    == NewRegistration(View(s), patient_id, doctor_id, department_id,
                                  visit_time, Scheduled)
    IN  /\ sess[s].pc \in {"idle", "created"}
        /\ writer \in {0, s}
        /\ result = "ok" => row.id <= MaxId
        /\ sess' = IF result = "ok"
                   THEN [sess EXCEPT ![s] = [@ EXCEPT !.pc = "created",
                                                      !.pending = @ \cup {row}]]
                   ELSE sess
        /\ writer' = IF result = "ok" THEN s ELSE writer
        /\ last' = Call("create", patient_id, doctor_id, department_id, visit_time,
                        IF result = "ok" THEN row.id ELSE 0, result)
        /\ UNCHANGED <<registrations, now>>

\* complete_registration that commits the session and drops the rows the
\* session had flushed before.
ScopeComplete_DropsPending(s, registration_id) ==
    LET found == { r \in View(s) : r.id = registration_id }
    IN  /\ sess[s].pc \in {"idle", "created"}
        /\ writer \in {0, s}
        /\ registrations' =
              { IF r.id = registration_id THEN [r EXCEPT !.status = Completed] ELSE r :
                    r \in registrations }
        /\ sess' = IF found = {} THEN sess ELSE Closed(s)
        /\ writer' = IF found = {} THEN writer ELSE 0
        /\ last' = Call("complete", 0, 0, 0, 0, registration_id,
                        IF found = {} THEN "ResourceNotFoundError" ELSE "ok")
        /\ UNCHANGED now

\* complete_registration inside the open session s: the status is set,
\* flushed and committed together with everything the session has flushed.
ScopeComplete(s, registration_id) ==
    LET found == { r \in View(s) : r.id = registration_id }
    IN  /\ sess[s].pc \in {"idle", "created"}
        /\ writer \in {0, s}
        /\ registrations' =
              IF found = {} THEN registrations
              ELSE { IF r.id = registration_id THEN [r EXCEPT !.status = Completed]
                     ELSE r : r \in View(s) }
        /\ sess' = IF found = {} THEN sess ELSE Closed(s)
        /\ writer' = IF found = {} THEN writer ELSE 0
        /\ last' = Call("complete", 0, 0, 0, 0, registration_id,
                        IF found = {} THEN "ResourceNotFoundError" ELSE "ok")
        /\ UNCHANGED now

\* delete_registration inside the open session s: the row is deleted and
\* the session committed.
ScopeDelete(s, registration_id) ==
    LET found == { r \in View(s) : r.id = registration_id }
    IN  /\ sess[s].pc \in {"idle", "created"}
        /\ writer \in {0, s}
        /\ registrations' = IF found = {} THEN registrations ELSE View(s) \ found
        /\ sess' = IF found = {} THEN sess ELSE Closed(s)
        /\ writer' = IF found = {} THEN writer ELSE 0
        /\ last' = Call("delete", 0, 0, 0, 0, registration_id,
                        IF found = {} THEN "ResourceNotFoundError" ELSE "ok")
        /\ UNCHANGED now

\* A lifecycle operation, `op`, whose flush or commit raises `exception`:
\* session.rollback() undoes everything the session has flushed.
ScopeStorageFails(s, op, registration_id, exception) ==
    /\ sess[s].pc \in {"idle", "created"}
    /\ \E r \in View(s) : r.id = registration_id
    /\ sess' = Closed(s)
    /\ writer' = IF writer = s THEN 0 ELSE writer
    /\ last' = Call(op, 0, 0, 0, 0, registration_id, Reraised(exception))
    /\ UNCHANGED <<registrations, now>>

\* The with block ends normally: session.commit().
ScopeCommit(s) ==
    /\ sess[s].pc = "created"
    /\ registrations' = registrations \cup sess[s].pending
    /\ sess' = Closed(s)
    /\ writer' = 0
    /\ last' = Call("commit", 0, 0, 0, 0, 0, "ok")
    /\ UNCHANGED now

\* The with block is left by an exception: the session is closed and its
\* transaction rolled back.
ScopeRollback(s) ==
    /\ sess[s].pc = "created"
    /\ sess' = Closed(s)
    /\ writer' = 0
    /\ last' = Call("rollback", 0, 0, 0, 0, 0, "ok")
    /\ UNCHANGED <<registrations, now>>

\* One session after another, each holding any number of calls.
ScopeNext ==
    \/ \E a \in ValidIdArgs, t \in {T0, T0 + timedelta(15, 0)} :
            ScopeCreate(1, a[1], a[2], a[3], t)
    \/ \E id \in 1..(MaxId + 1) : ScopeComplete(1, id)
    \/ \E id \in 1..(MaxId + 1) : ScopeDelete(1, id)
    \/ \E id \in 1..(MaxId + 1), e \in StorageExceptions :
            ScopeStorageFails(1, "complete", id, e)
    \/ \E id \in 1..(MaxId + 1), e \in StorageExceptions :
            ScopeStorageFails(1, "delete", id, e)
    \/ ScopeCommit(1)
    \/ ScopeRollback(1)

ScopeSpec == Init /\ [][ScopeNext]_vars

(***************************************************************************)
(* Concurrent sessions that hold several bookings each, as seed() does:    *)
(* every create_registration of a session runs in the same transaction,    *)
(* and the first exception ends the session.                               *)
(***************************************************************************)
\* Largest registration id the batch exploration inserts.
MaxBatchId == 4

\* Bookings a session makes before it commits.
CallsPerScope == 2

\* The visit time of a session's next booking: one slot of 15 minutes
\* later with every booking the session has made.
BatchVisitTime(s) == T0 + Cardinality(sess[s].pending) * timedelta(15, 0)

\* The rows stored or flushed, and the bookings under way that may still
\* insert one.
Booked ==
    Cardinality(registrations \cup UNION { sess[s].pending : s \in Sessions })
        + Cardinality({ s \in Sessions :
                            sess[s].pc \notin {"idle", "created", "committed", "failed"} })

\* The lookups and validations of a session's next create_registration.
BeginBatchCreate(s, patient_id, doctor_id, department_id) ==
    /\ sess[s].pc \in {"idle", "created"}
    /\ Cardinality(sess[s].pending) < CallsPerScope
    /\ Booked < MaxBatchId
    /\ LET v == Validate(patient_id, doctor_id, department_id, BatchVisitTime(s), now)
       IN  IF v = "ok"
           THEN /\ sess' = [sess EXCEPT ![s] =
                        [@ EXCEPT !.pc = "doctor_window", !.patient_id = patient_id,
                                  !.doctor_id = doctor_id,
                                  !.department_id = department_id,
                                  !.visit_time = BatchVisitTime(s)]]
                /\ UNCHANGED <<registrations, now, last, writer>>
           ELSE Rollback(s, v)

\* An INSERT that waits for the write lock without end.
BatchInsert_Blocks(s) ==
    /\ sess[s].pc = "insert"
    /\ UNCHANGED vars

\* RegistrationRepository.create in a session that may already hold the
\* write lock from an earlier booking.
BatchInsert(s) ==
    /\ sess[s].pc = "insert"
    /\ writer \in {0, s}
    /\ LET row == NewRegistration(View(s), sess[s].patient_id, sess[s].doctor_id,
                                  sess[s].department_id, sess[s].visit_time, Scheduled)
       IN  sess' = [sess EXCEPT ![s] = [@ EXCEPT !.pc = "created",
                                                 !.pending = @ \cup {row}]]
    /\ writer' = s
    /\ UNCHANGED <<registrations, now, last>>

\* The statements session s can run once it has begun a booking.
BatchStep(s) ==
    \/ DoctorWindowStep(s)
    \/ PatientWindowStep(s)
    \/ ExactDoctorStep(s)
    \/ ExactPatientStep(s)
    \/ BatchInsert(s)
    \/ InsertTimeout(s)
    \/ Commit(s)

BatchNext ==
    \E s \in Sessions :
        \/ \E a \in ValidIdArgs : BeginBatchCreate(s, a[1], a[2], a[3])
        \/ DoctorWindowStep(s)
        \/ PatientWindowStep(s)
        \/ ExactDoctorStep(s)
        \/ ExactPatientStep(s)
        \/ BatchInsert(s)
        \/ InsertTimeout(s)
        \/ Commit(s)

\* Every session that has begun keeps running, as in ConcFairSpec.
BatchFairSpec ==
    Init /\ [][BatchNext]_vars /\ \A s \in Sessions : WF_vars(BatchStep(s))

(***************************************************************************)
(* Properties.                                                             *)
(***************************************************************************)
Abs(x) == IF x < 0 THEN 0 - x ELSE x

\* The store as it was before the last call of the sequential client: a
\* successful create added the row it returned, a failed one added nothing.
PreStore ==
    { r \in registrations :
        ~(last.op = "create" /\ last.result = "ok" /\ r.id = last.id) }

\* The last call was a create_registration for a stored patient, a stored
\* doctor with the doctor's own department, at a time not in the past.
ValidCreate ==
    /\ last.op = "create"
    /\ last.patient_id \in PatientIds
    /\ last.doctor_id \in DoctorIds
    /\ last.department_id = DoctorDepartment[last.doctor_id]
    /\ last.visit_time >= now

\* r is a non-cancelled registration of the doctor of the last call.
ActiveOfDoctor(r) == r.status # Cancelled /\ r.doctor_id = last.doctor_id

\* r is a non-cancelled registration of the patient of the last call.
ActiveOfPatient(r) == r.status # Cancelled /\ r.patient_id = last.patient_id

\* The distance between r's visit time and the visit time of the last call.
Gap(r) == Abs(r.visit_time - last.visit_time)

\* C1: no two non-cancelled registrations of the same doctor have visit
\* times less than 15 minutes apart.
C1_DoctorVisitsFifteenMinutesApart ==
    \A r1 \in registrations, r2 \in registrations :
        (/\ r1.id # r2.id
         /\ r1.doctor_id = r2.doctor_id
         /\ r1.status # Cancelled
         /\ r2.status # Cancelled)
            => Abs(r1.visit_time - r2.visit_time) >= timedelta(15, 0)

\* C2: no two non-cancelled registrations of the same patient have visit
\* times less than 15 minutes apart, whichever doctors they are with.
C2_PatientVisitsFifteenMinutesApart ==
    \A r1 \in registrations, r2 \in registrations :
        (/\ r1.id # r2.id
         /\ r1.patient_id = r2.patient_id
         /\ r1.status # Cancelled
         /\ r2.status # Cancelled)
            => Abs(r1.visit_time - r2.visit_time) >= timedelta(15, 0)

\* C3: a create_registration for a stored patient and doctor, with the
\* doctor's own department and a time not in the past, succeeds exactly
\* when the store held no non-cancelled registration of that doctor or of
\* that patient within 14 minutes 59 seconds of the requested time.
C3_SucceedsIffWindowFree ==
    ValidCreate =>
        (last.result = "ok" <=>
            ~ \E r \in PreStore :
                /\ ActiveOfDoctor(r) \/ ActiveOfPatient(r)
                /\ Gap(r) <= timedelta(14, 59))

\* A create was rejected because the patient holds a non-cancelled
\* registration with another doctor exactly 14:59 away.
C3_Witness ==
    /\ ValidCreate
    /\ last.result = "PatientBusyError"
    /\ \E r \in PreStore :
            /\ ActiveOfPatient(r)
            /\ r.doctor_id # last.doctor_id
            /\ Gap(r) = timedelta(14, 59)

\* Both concurrent sessions have left their session_scope.
BothFinished == \A s \in Sessions : sess[s].pc \in {"committed", "failed"}

\* C4: of two concurrent requests for the same doctor and visit time by
\* different patients, exactly one commits and the other fails with
\* DoctorBusyError.
C4_ExactlyOneCommits ==
    (/\ BothFinished
     /\ sess[1].doctor_id = sess[2].doctor_id
     /\ sess[1].visit_time = sess[2].visit_time
     /\ sess[1].patient_id # sess[2].patient_id)
        => \E a \in Sessions, b \in Sessions :
                /\ a # b
                /\ sess[a].pc = "committed"
                /\ sess[b].pc = "failed"
                /\ sess[b].result = "DoctorBusyError"

\* C5: of two concurrent requests for the same patient with different
\* doctors and visit times less than 15 minutes apart, at most one commits,
\* and the patient never holds two non-cancelled registrations inside the
\* window.
C5_AtMostOneCommits ==
    (/\ sess[1].patient_id = sess[2].patient_id
     /\ sess[1].patient_id \in PatientIds
     /\ sess[1].doctor_id # sess[2].doctor_id
     /\ Abs(sess[1].visit_time - sess[2].visit_time) < timedelta(15, 0))
        => /\ ~(sess[1].pc = "committed" /\ sess[2].pc = "committed")
           /\ \A r1 \in registrations, r2 \in registrations :
                (/\ r1.id # r2.id
                 /\ r1.patient_id = r2.patient_id
                 /\ r1.status # Cancelled
                 /\ r2.status # Cancelled)
                    => Abs(r1.visit_time - r2.visit_time) >= timedelta(15, 0)

\* C6: for the same doctor, a request 14 minutes 58 seconds from a
\* non-cancelled registration fails with DoctorBusyError, and a request
\* whose nearest non-cancelled registrations are exactly 15 minutes away,
\* before or after, is accepted.
C6_BoundaryAtFifteenMinutes ==
    ValidCreate =>
        /\ (\E r \in PreStore : ActiveOfDoctor(r) /\ Gap(r) = timedelta(14, 58))
                => last.result = "DoctorBusyError"
        /\ (/\ \E r \in PreStore : ActiveOfDoctor(r) /\ Gap(r) = timedelta(15, 0)
            /\ \A r \in PreStore :
                    (ActiveOfDoctor(r) \/ ActiveOfPatient(r)) => Gap(r) >= timedelta(15, 0))
                => last.result = "ok"

\* C7: a request at the doctor, patient and time of a cancelled
\* registration succeeds when no non-cancelled registration of the doctor
\* or of the patient lies in the window.
C7_CancelledNeverBlocks ==
    (/\ ValidCreate
     /\ \E c \in PreStore :
            /\ c.status = Cancelled
            /\ c.doctor_id = last.doctor_id
            /\ c.patient_id = last.patient_id
            /\ c.visit_time = last.visit_time
     /\ ~ \E r \in PreStore :
            /\ ActiveOfDoctor(r) \/ ActiveOfPatient(r)
            /\ Gap(r) <= timedelta(14, 59))
        => last.result = "ok"

\* A create succeeded at the doctor, patient and time of a cancelled
\* registration that is still stored.
C7_Witness ==
    /\ ValidCreate
    /\ last.result = "ok"
    /\ \E c \in PreStore :
            /\ c.status = Cancelled
            /\ c.doctor_id = last.doctor_id
            /\ c.patient_id = last.patient_id
            /\ c.visit_time = last.visit_time

\* C8: while a completed registration lies in the window, a request for
\* its doctor fails with DoctorBusyError and a request for its patient
\* fails with DoctorBusyError or PatientBusyError.
C8_CompletedStillOccupies ==
    ValidCreate =>
        /\ (\E r \in PreStore :
                /\ r.status = Completed
                /\ r.doctor_id = last.doctor_id
                /\ Gap(r) <= timedelta(14, 59))
                    => last.result = "DoctorBusyError"
        /\ (\E r \in PreStore :
                /\ r.status = Completed
                /\ r.patient_id = last.patient_id
                /\ Gap(r) <= timedelta(14, 59))
                    => last.result \in {"DoctorBusyError", "PatientBusyError"}

\* C9 as stated: every create_registration with a visit time earlier than
\* the current time fails with ValidationError and leaves the store as it
\* was.
C9_PastAlwaysValidationError ==
    [][ (last'.op = "create" /\ last'.visit_time < now)
            => (last'.result = "ValidationError" /\ registrations' = registrations) ]_vars

\* C9, amended: a create_registration that names a stored patient, a
\* stored doctor and a stored department with a visit time earlier than
\* the current time fails with ValidationError and leaves the store as it
\* was, whether or not the doctor or patient has a conflicting
\* registration.
C9_PastRejectedForStoredEntities ==
    [][ (/\ last'.op = "create"
         /\ last'.patient_id \in PatientIds
         /\ last'.doctor_id \in DoctorIds
         /\ last'.department_id \in DepartmentIds
         /\ last'.visit_time < now)
            => (last'.result = "ValidationError" /\ registrations' = registrations) ]_vars

\* A request in the past, with the doctor's own department, was rejected
\* with ValidationError while the doctor holds a non-cancelled registration
\* at the requested time.
C9_Witness ==
    /\ last.op = "create"
    /\ last.patient_id \in PatientIds
    /\ last.doctor_id \in DoctorIds
    /\ last.department_id = DoctorDepartment[last.doctor_id]
    /\ last.visit_time < now
    /\ last.result = "ValidationError"
    /\ \E r \in registrations : ActiveOfDoctor(r) /\ Gap(r) = 0

\* C10 as stated: every create_registration whose stored doctor belongs to
\* another department than the stored department supplied fails with
\* ValidationError and leaves the store as it was.
C10_MismatchAlwaysValidationError ==
    [][ (/\ last'.op = "create"
         /\ last'.doctor_id \in DoctorIds
         /\ last'.department_id \in DepartmentIds
         /\ DoctorDepartment[last'.doctor_id] # last'.department_id)
            => (last'.result = "ValidationError" /\ registrations' = registrations) ]_vars

\* C10, amended: for a stored patient, a create_registration whose stored
\* doctor belongs to another department than the stored department
\* supplied fails with ValidationError and leaves the store as it was.
C10_MismatchRejectedForStoredPatient ==
    [][ (/\ last'.op = "create"
         /\ last'.patient_id \in PatientIds
         /\ last'.doctor_id \in DoctorIds
         /\ last'.department_id \in DepartmentIds
         /\ DoctorDepartment[last'.doctor_id] # last'.department_id)
            => (last'.result = "ValidationError" /\ registrations' = registrations) ]_vars

\* A request for a free slot in the future was rejected with
\* ValidationError because the department is not the doctor's.
C10_Witness ==
    /\ last.op = "create"
    /\ last.patient_id \in PatientIds
    /\ last.doctor_id \in DoctorIds
    /\ last.department_id \in DepartmentIds
    /\ DoctorDepartment[last.doctor_id] # last.department_id
    /\ last.visit_time >= now
    /\ last.result = "ValidationError"
    /\ registrations = {}

\* C11: a create_registration whose patient id, doctor id or department id
\* refers to no stored row fails with ResourceNotFoundError, and with no
\* other error.
C11_MissingEntityIsNotFound ==
    (/\ last.op = "create"
     /\ \/ last.patient_id \notin PatientIds
        \/ last.doctor_id \notin DoctorIds
        \/ last.department_id \notin DepartmentIds)
        => last.result = "ResourceNotFoundError"

\* C12: when the earlier validations pass and one or more non-cancelled
\* registrations of the doctor lie in the window, create_registration fails
\* with DoctorBusyError; when none of the doctor's but one or more of the
\* patient's lie in it, with PatientBusyError.
C12_AnyNumberOfConflictsIsBusy ==
    ValidCreate =>
        LET doctorRows  == { r \in PreStore :
                                ActiveOfDoctor(r) /\ Gap(r) <= timedelta(14, 59) }
            patientRows == { r \in PreStore :
                                ActiveOfPatient(r) /\ Gap(r) <= timedelta(14, 59) }
        IN  /\ doctorRows # {} => last.result = "DoctorBusyError"
            /\ (doctorRows = {} /\ patientRows # {}) => last.result = "PatientBusyError"

\* C13: a create_registration that fails, at whichever lookup, validation
\* or conflict step, leaves the store exactly as it was: no registration is
\* added, removed or changed, and the write lock is held by no one.
C13_FailedCreateLeavesStore ==
    [][ (last'.op = "create" /\ last'.result # "ok")
            => (registrations' = registrations /\ writer' = 0) ]_vars

\* A create was rejected with DoctorBusyError while the store holds the
\* registration it conflicts with.
C13_Witness ==
    /\ last.op = "create"
    /\ last.result = "DoctorBusyError"
    /\ \E r \in registrations : ActiveOfDoctor(r) /\ Gap(r) = 0
    /\ writer = 0

\* C14: once create_registration has returned a Registration to its
\* caller, the inserted row is committed: it is among the rows every other
\* transaction reads.
C14_ReturnedIsCommitted ==
    \A s \in Sessions :
        sess[s].pc = "created" => sess[s].pending \subseteq registrations

\* C15: under fair scheduling every create_registration request that has
\* begun eventually commits or is rejected; no request waits forever.
C15_EveryRequestEnds ==
    \A s \in Sessions :
        (sess[s].pc # "idle") ~> (sess[s].pc \in {"committed", "failed"})

\* A request waits: session 2 has reached its INSERT while session 1 holds
\* the write lock with its own row flushed and not yet committed.
C15_Witness ==
    /\ sess[1].pc = "created"
    /\ sess[2].pc = "insert"
    /\ writer = 1

\* C16: a registration that complete_registration has completed is in
\* list_registrations(status="completed") right after the call, and every
\* registration in that listing stays in it over every later call except
\* its own successful delete_registration.
C16_CompletedStaysListed ==
    [][ /\ (last'.op = "complete" /\ last'.result = "ok")
            => \E r \in list(registrations', NoFilter, NoFilter, Completed) :
                    r.id = last'.id
        /\ \A r \in list(registrations, NoFilter, NoFilter, Completed) :
            \/ r \in list(registrations', NoFilter, NoFilter, Completed)
            \/ (last'.op = "delete" /\ last'.result = "ok" /\ last'.id = r.id) ]_vars

\* A completed registration is still listed after a later successful
\* create_registration.
C16_Witness ==
    /\ last.op = "create"
    /\ last.result = "ok"
    /\ \E r \in list(registrations, NoFilter, NoFilter, Completed) : r.id # last.id

\* C17: after a successful delete_registration(id), the store holds no
\* registration with that id once the next call has run, so that no
\* listing, with any filters, returns one and a lookup of the id finds
\* nothing.
C17_DeletedIdStaysGone ==
    [][ (last.op = "delete" /\ last.result = "ok")
            => \A dep \in DepartmentIds \cup {NoFilter}, day \in {date(T0), NoFilter},
                  st \in {Scheduled, Completed, Cancelled, ""} :
                    ~ \E r \in list(registrations', dep, day, st) : r.id = last.id ]_vars

\* C18: complete_registration and delete_registration called with an id
\* that no stored registration has fail with ResourceNotFoundError and
\* leave every stored registration as it was.
C18_MissingRegistrationIsNotFound ==
    [][ (/\ last'.op \in {"complete", "delete"}
         /\ ~ \E r \in registrations : r.id = last'.id)
            => (last'.result = "ResourceNotFoundError"
                    /\ registrations' = registrations) ]_vars

\* A delete_registration of an id that is not stored failed with
\* ResourceNotFoundError while other registrations are stored.
C18_Witness ==
    /\ last.op = "delete"
    /\ last.result = "ResourceNotFoundError"
    /\ registrations # {}
    /\ ~ \E r \in registrations : r.id = last.id

\* C19: a complete_registration or delete_registration that fails for any
\* reason other than a missing registration, that is, because the storage
\* layer failed to persist, ends with ValidationError and leaves the store
\* as it was.
C19_StorageFailureIsValidationError ==
    [][ (/\ last'.op \in {"complete", "delete"}
         /\ last'.result \notin {"ok", "ResourceNotFoundError"})
            => (last'.result = "ValidationError"
                    /\ registrations' = registrations) ]_vars

\* C20: whenever a call changes the status of a stored registration, the
\* change is from scheduled to completed.
C20_OnlyScheduledToCompleted ==
    [][ \A r \in registrations, q \in registrations' :
            (r.id = q.id /\ r.status # q.status)
                => (r.status = Scheduled /\ q.status = Completed) ]_vars

\* C21: every stored registration's department_id is the department_id of
\* the doctor it references.
C21_FiledUnderDoctorsDepartment ==
    \A r \in registrations : r.department_id = DoctorDepartment[r.doctor_id]

\* A registration is stored, and the last call, which named a stored
\* doctor with another stored department, was rejected and stored nothing.
C21_Witness ==
    /\ registrations # {}
    /\ last.op = "create"
    /\ last.patient_id \in PatientIds
    /\ last.doctor_id \in DoctorIds
    /\ last.department_id \in DepartmentIds
    /\ last.department_id # DoctorDepartment[last.doctor_id]
    /\ last.result = "ValidationError"

\* C22: every stored registration's visit_time is not earlier than its
\* created_at.
C22_VisitNotBeforeCreation ==
    \A r \in registrations : r.visit_time >= r.created_at

\* C23: for every combination of filters the listing is exactly the set
\* of stored registrations that satisfy every filter given (department
\* equal, visit time on that day, status equal), and with the sentinel as
\* status filter exactly those whose status is empty.
C23_ListingIsExactlyTheMatches ==
    \A dep \in DepartmentIds \cup {NoFilter},
       day \in {date(t) : t \in ListVisitTimes} \cup {NoFilter},
       st \in {NoStatus, Scheduled, Completed, Sentinel} :
        get_registrations(registrations, dep, day, st) =
            { r \in registrations :
                /\ dep # NoFilter => r.department_id = dep
                /\ day # NoFilter => date(r.visit_time) = day
                /\ st = Sentinel => r.status = ""
                /\ st \notin {NoStatus, Sentinel} => r.status = st }

\* The error of the earliest step that rejects the last create call, in the
\* order patient lookup, doctor lookup, department lookup, department
\* match, time in the future, doctor conflict, patient conflict; "none"
\* when no step rejects it.
EarliestRejection ==
    IF last.patient_id \notin PatientIds THEN "ResourceNotFoundError"
    ELSE IF last.doctor_id \notin DoctorIds THEN "ResourceNotFoundError"
    ELSE IF last.department_id \notin DepartmentIds THEN "ResourceNotFoundError"
    ELSE IF DoctorDepartment[last.doctor_id] # last.department_id THEN "ValidationError"
    ELSE IF last.visit_time < now THEN "ValidationError"
    ELSE IF \E r \in PreStore : ActiveOfDoctor(r) /\ Gap(r) <= timedelta(14, 59)
        THEN "DoctorBusyError"
    ELSE IF \E r \in PreStore : ActiveOfPatient(r) /\ Gap(r) <= timedelta(14, 59)
        THEN "PatientBusyError"
    ELSE "none"

\* C24: a create_registration that some step rejects fails with the error
\* of the earliest rejecting step; one that conflicts for the doctor and
\* for the patient fails with DoctorBusyError.
C24_EarliestStepReports ==
    (last.op = "create" /\ EarliestRejection # "none")
        => last.result = EarliestRejection

C26_DeleteFreesSlot ==
    [][ (last'.op = "delete" /\ last'.result = "ok")
            => \A r \in registrations :
                (/\ r.id = last'.id
                 /\ r.visit_time >= now
                 /\ ~ \E q \in registrations' :
                        /\ q.id # r.id
                        /\ q.status # Cancelled
                        /\ q.doctor_id = r.doctor_id \/ q.patient_id = r.patient_id
                        /\ Abs(q.visit_time - r.visit_time) <= timedelta(14, 59))
                    => CreateOutcome(registrations', r.patient_id, r.doctor_id,
                                     r.department_id, r.visit_time, now) = "ok" ]_vars

\* A registration has been deleted while another one stays stored, and a
\* request for a stored doctor and patient at the reference time, still in
\* the future, would be accepted.
C26_Witness ==
    /\ last.op = "delete"
    /\ last.result = "ok"
    /\ registrations # {}
    /\ now <= T0
    /\ \E a \in ValidIdArgs : CreateOutcome(registrations, a[1], a[2], a[3], T0, now) = "ok"

\* Over the step, the rows the session reads are those it read before,
\* except that the registration `id` may differ in its status (complete)
\* or be gone (delete).
OnlyTargetTouched(s, op, id) ==
    /\ \A q \in View(s)' : \E r \in View(s) : r.id = q.id
    /\ \A r \in View(s) :
        IF r.id # id THEN r \in View(s)'
        ELSE IF op = "delete" THEN TRUE
        ELSE \E q \in View(s)' : q = [r EXCEPT !.status = q.status]

\* C27 as stated: every complete_registration(id) and
\* delete_registration(id), whatever its outcome, leaves every registration
\* other than `id` as it was, the rows the session has flushed and not yet
\* committed included.
C27_LifecycleTouchesOnlyTarget ==
    [][ (last'.op \in {"complete", "delete"})
            => OnlyTargetTouched(1, last'.op, last'.id) ]_vars

\* C27, amended: a complete_registration(id) or delete_registration(id)
\* that succeeds or fails with ResourceNotFoundError leaves every
\* registration other than `id` as it was, the rows the session has flushed
\* and not yet committed included.
C27_LifecycleTouchesOnlyTargetUnlessStorageFails ==
    [][ (/\ last'.op \in {"complete", "delete"}
         /\ last'.result \in {"ok", "ResourceNotFoundError"})
            => OnlyTargetTouched(1, last'.op, last'.id) ]_vars

\* A complete_registration succeeded on a committed registration in a
\* session that had flushed another one, and both are now committed.
C27_Witness ==
    /\ last.op = "complete"
    /\ last.result = "ok"
    /\ Cardinality(registrations) = 2
    /\ \E r \in registrations : r.id # last.id /\ r.status = Scheduled
    /\ sess[1] = Idle

\* C28: of two sessions that each make several bookings before they
\* commit, each one that has begun eventually commits or fails; none waits
\* for the other forever.
C28_BatchSessionsBothFinish ==
    \A s \in Sessions :
        (sess[s].pc # "idle") ~> (sess[s].pc \in {"committed", "failed"})

\* Both sessions have committed, with two bookings each.
C28_Witness ==
    /\ \A s \in Sessions : sess[s].pc = "committed"
    /\ Cardinality(registrations) >= 4
    /\ writer = 0

====
